---- MODULE Spec2Model ----
(***************************************************************************)
(* P2PLoader (src/lib/integration/p2p-loader-generator.js): one loader     *)
(* object, the timers it arms, the transfers it issues to the peer agent   *)
(* module, and the host callbacks it invokes.                              *)
(*                                                                         *)
(* Time is counted in half milliseconds, so that srTime / 2 is an integer  *)
(* for every duration given in whole milliseconds.                         *)
(***************************************************************************)
EXTENDS Integers, Sequences, FiniteSets, TLC

\* ------------------------------------------------------------------ bounds
\* Transfers the peer agent module may be asked for in one behaviour.
MaxTransfers == 3
\* Last value of the clock (performance.now(), in half milliseconds).
MaxNow == 2

\* ------------------------------------------------------- program constants
\* The cap of the exponential backoff, in milliseconds.
MaxRetryDelay == 64000
\* The cap of the latency estimate: 10 ms, in half milliseconds.
MaxLatency == 20

\* ------------------------------------------------------------------ inputs
\* frag: null, or a fragment with its two byte-range offsets (undefined when
\* hasRange is FALSE).
NoFrag == [present |-> FALSE, hasRange |-> FALSE, s |-> 0, e |-> 0]
PlainFrag == [present |-> TRUE, hasRange |-> FALSE, s |-> 0, e |-> 0]
RangeFrag == [present |-> TRUE, hasRange |-> TRUE, s |-> 100, e |-> 200]
\* a progress event of the peer agent: bytes from the CDN and from peers
\* (0 stands for an absent or zero count: both are falsy).
Progress(c, p) == [cdnDownloaded |-> c, p2pDownloaded |-> p]
\* the stats of a finished transfer, durations in half milliseconds.
Stats(p2pDuration, cdnDuration, p2pDownloaded) ==
    [p2pDuration |-> p2pDuration, cdnDuration |-> cdnDuration,
     p2pDownloaded |-> p2pDownloaded]
\* The inputs of Spec, the life cycle of a reused loader.
Frags == {NoFrag, PlainFrag}
MaxRetries == {0, 2}
RetryDelays == {1000}
Timeouts == {5000}
HttpStatuses == {404}
ProgressEvents == {Progress(3, 2), Progress(3, 0)}
SuccessStats == {Stats(4, 2, 1)}
\* The inputs of SpecRetry, one load() and its retries.
RetryMaxRetries == {0, 1, 2, 3}
RetryRetryDelays == {1000, 20000, 40000, 70000}
\* The inputs of SpecTiming, the stats of the attempts as the clock advances.
TimingMaxRetries == {0, 1}
TimingProgressEvents == {Progress(0, 0), Progress(3, 0), Progress(0, 2), Progress(3, 2)}
TimingSuccessStats == {Stats(0, 0, 0), Stats(10, 0, 0), Stats(0, 0, 1),
                       Stats(4, 2, 1), Stats(60, 0, 1)}
\* The inputs of SpecRange, the Range header of a reused loader.
RangeFrags == {PlainFrag, RangeFrag}
RangeMaxRetries == {0, 1}

VARIABLES
    loader,          \* the fields of the P2PLoader object
    timers,          \* the timers armed by setTimeout and still pending
    transfers,       \* the transfers the peer agent module works on, by handle
    issued,          \* the number of transfers getSegment was asked for
    peerAgentModule, \* hlsjsWrapper.peerAgentModule is set
    now,             \* performance.now()
    ev,              \* the last operation and what it did (history)
    hist             \* what happened since the current load() (history)

vars == <<loader, timers, transfers, issued, peerAgentModule, now, ev, hist>>

Min(a, b) == IF a < b THEN a ELSE b
Max(a, b) == IF a > b THEN a ELSE b

\* ------------------------------------------------------------------- state
\* this.stats before the first load(): the field does not exist.
NoStats == [exists |-> FALSE, trequest |-> 0, tfirstK |-> "undefined", tfirst |-> 0,
            tloadDef |-> FALSE, tload |-> 0, loadedDef |-> FALSE, loaded |-> 0,
            retry |-> 0, aborted |-> FALSE]

\* this.stats = { trequest: performance.now(), retry: 0 }
NewStats(t) == [NoStats EXCEPT !.exists = TRUE, !.trequest = t]

\* No Range header in the request.
NoHeader == [present |-> FALSE, numeric |-> FALSE, first |-> 0, last |-> 0]

\* What one handler run did, besides changing the state.
NoOut == [host |-> "none", hostStats |-> NoStats, status |-> 0, threw |-> "none",
          cancelled |-> 0, issued |-> 0, armedRetry |-> -1, armedDeadline |-> FALSE]

\* A handle the peer agent module has no transfer for.
NoTransfer == [status |-> "none", range |-> NoHeader, old |-> FALSE]

\* The machine a handler runs on: the object, its environment, its effects.
Machine == [this |-> loader, timers |-> timers, transfers |-> transfers,
            issued |-> issued, module |-> peerAgentModule, now |-> now,
            out |-> NoOut]

\* -------------------------------------------------------------- primitives
clearTimeout(ts, id) == {x \in ts : x.id # id}

\* The id setTimeout returns next: one that no pending timer has and no field
\* of the object holds (ids are never reused while anything can name them).
NewTimerId(m) ==
    LET used == {x.id : x \in m.timers}
                    \cup {m.this.requestTimeout, m.this.retryTimeout}
    IN CHOOSE i \in 1..(Cardinality(m.timers) + 3) :
          /\ i \notin used
          /\ \A j \in 1..(i - 1) : j \in used

\* setTimeout(handler, delay): the machine with the timer pending.
setTimeout(m, kind, delay) ==
    [m EXCEPT !.timers = @ \cup {[id |-> NewTimerId(m), kind |-> kind, delay |-> delay]}]

\* The handle getSegment returns next: one that names no transfer in progress
\* and that the object does not hold.
NewHandle(m) ==
    CHOOSE h \in DOMAIN m.transfers :
       /\ m.transfers[h].status = "none" /\ h # m.this.peerAgentLoader
       /\ \A j \in 1..(h - 1) :
             m.transfers[j].status # "none" \/ j = m.this.peerAgentLoader

\* reset(cancelRetry = true)
reset(m, cancelRetry) ==
    LET t1 == clearTimeout(m.timers, m.this.requestTimeout)
        t2 == IF cancelRetry THEN clearTimeout(t1, m.this.retryTimeout) ELSE t1
    IN [m EXCEPT !.timers = t2,
                 !.this.requestTimeout = 0,
                 !.this.retryTimeout = IF cancelRetry THEN 0 ELSE @,
                 !.this.peerAgentLoader = 0]

\* The Range header with the end offset taken as the last byte.
RangeHeader_Inclusive(frag) ==
    IF frag.hasRange
    THEN [present |-> TRUE, numeric |-> TRUE, first |-> frag.s, last |-> frag.e]
    ELSE [present |-> TRUE, numeric |-> FALSE, first |-> 0, last |-> 0]

\* headers.Range = `bytes=${frag.byteRangeStartOffset}-${frag.byteRangeEndOffset - 1}`
\* (undefined offsets print as "undefined" and "NaN": numeric is FALSE).
RangeHeader(frag) ==
    IF frag.hasRange
    THEN [present |-> TRUE, numeric |-> TRUE, first |-> frag.s, last |-> frag.e - 1]
    ELSE [present |-> TRUE, numeric |-> FALSE, first |-> 0, last |-> 0]

\* The backoff without its cap.
NextRetryDelay_NoCap(d) == 2 * d

\* exponential backoff: Math.min(2 * this.retryDelay, 64000)
NextRetryDelay(d) == Min(2 * d, MaxRetryDelay)

\* this.stats.retry < this.maxRetry
MayRetry(retry, maxRetry) == retry < maxRetry

\* loadInternal() starting the statistics anew, as load() does.
loadInternal_NewStats(m) ==
    IF m.this.peerAgentLoader # 0
    THEN [m EXCEPT !.out.threw = "unfinalized"]
    ELSE
      LET range == IF m.this.byteRange THEN RangeHeader(m.this.frag) ELSE NoHeader
          m1 == [m EXCEPT !.this.stats = [NewStats(m.now) EXCEPT
                                             !.tfirstK = "null",
                                             !.loadedDef = TRUE]]
          m2 == [setTimeout(m1, "deadline", m1.this.timeout)
                    EXCEPT !.this.requestTimeout = NewTimerId(m1),
                           !.out.armedDeadline = TRUE]
          h  == NewHandle(m2)
      IN IF ~m2.module
         THEN [m2 EXCEPT !.out.threw = "TypeError"]
         ELSE [m2 EXCEPT !.transfers[h] = [status |-> "live", range |-> range, old |-> FALSE],
                         !.issued = @ + 1,
                         !.this.peerAgentLoader = h,
                         !.out.issued = h]

\* ---------------------------------------------------------------- handlers
\* loadInternal()
loadInternal(m) ==
    IF m.this.peerAgentLoader # 0
    THEN [m EXCEPT !.out.threw = "unfinalized"]
    ELSE
      LET range == IF m.this.byteRange THEN RangeHeader(m.this.frag) ELSE NoHeader
          m1 == [m EXCEPT !.this.stats.tfirstK = "null",
                          !.this.stats.tfirst = 0,
                          !.this.stats.loadedDef = TRUE,
                          !.this.stats.loaded = 0]
          m2 == [setTimeout(m1, "deadline", m1.this.timeout)
                    EXCEPT !.this.requestTimeout = NewTimerId(m1),
                           !.out.armedDeadline = TRUE]
          h  == NewHandle(m2)
      IN IF ~m2.module
         THEN [m2 EXCEPT !.out.threw = "TypeError"]
         ELSE [m2 EXCEPT !.transfers[h] = [status |-> "live", range |-> range, old |-> FALSE],
                         !.issued = @ + 1,
                         !.this.peerAgentLoader = h,
                         !.out.issued = h]

\* The checks of load() without the one of the peer agent module.
loadPrecondition_NoModuleCheck(onProgress, frag, module) ==
    IF ~onProgress THEN "noProgress"
    ELSE IF ~frag.present THEN "noFrag"
    ELSE "none"

\* The precondition checks of load(): the error thrown, or "none".
loadPrecondition(onProgress, frag, module) ==
    IF ~onProgress THEN "noProgress"
    ELSE IF ~frag.present THEN "noFrag"
    ELSE IF ~module THEN "noModule"
    ELSE "none"

\* load(url, responseType, onSuccess, onError, onTimeout, timeout, maxRetry,
\*      retryDelay, onProgress, frag)
load(m, onProgress, frag, timeout, maxRetry, retryDelay) ==
    LET pre == loadPrecondition(onProgress, frag, m.module) IN
    IF pre # "none"
    THEN [m EXCEPT !.out.threw = pre]
    ELSE loadInternal(
           [m EXCEPT !.this.byteRange = IF frag.hasRange THEN TRUE ELSE @,
                     !.this.frag = frag,
                     !.this.hasCallbacks = TRUE,
                     !.this.stats = NewStats(m.now),
                     !.this.timeout = timeout,
                     !.this.maxRetry = maxRetry,
                     !.this.retryDelay = retryDelay])

\* abort()
\* abort() marking the statistics as aborted whether or not a handle is held.
abort_AlwaysMarks(m) ==
    reset([m EXCEPT !.this.stats.aborted = TRUE,
                    !.transfers = IF m.this.peerAgentLoader # 0
                                  THEN [@ EXCEPT ![m.this.peerAgentLoader].status =
                                           IF @ = "live" THEN "cancelled" ELSE @]
                                  ELSE @,
                    !.out.cancelled = m.this.peerAgentLoader],
          TRUE)

abort(m) ==
    IF m.this.peerAgentLoader # 0
    THEN reset([m EXCEPT !.this.stats.aborted = TRUE,
                         !.transfers[m.this.peerAgentLoader].status =
                             IF @ = "live" THEN "cancelled" ELSE @,
                         !.out.cancelled = m.this.peerAgentLoader],
               TRUE)
    ELSE reset(m, TRUE)

\* loadSuccess() back-dating whenever the durations are positive, whatever
\* p2pDownloaded is.
loadSuccess_AnySource(m, stats) ==
    IF m.this.stats.aborted
    THEN m
    ELSE
      LET srTime  == stats.p2pDuration + stats.cdnDuration
          latency == Min(srTime \div 2, MaxLatency)
          m1 == IF srTime > 0
                THEN [m EXCEPT !.this.stats.trequest = m.now - srTime,
                               !.this.stats.tfirst = (m.now - srTime) + latency,
                               !.this.stats.tfirstK = "number"]
                ELSE m
          m2 == [m1 EXCEPT !.this.stats.tload = m.now,
                           !.this.stats.tloadDef = TRUE]
      IN reset([m2 EXCEPT !.out.host = "success",
                          !.out.hostStats = m2.this.stats],
               TRUE)

\* loadSuccess(segmentData, stats)
loadSuccess(m, stats) ==
    IF m.this.stats.aborted
    THEN m
    ELSE
      LET srTime  == stats.p2pDuration + stats.cdnDuration
          latency == Min(srTime \div 2, MaxLatency)
          m1 == IF srTime > 0 /\ stats.p2pDownloaded > 0
                THEN [m EXCEPT !.this.stats.trequest = m.now - srTime,
                               !.this.stats.tfirst = (m.now - srTime) + latency,
                               !.this.stats.tfirstK = "number"]
                ELSE m
          m2 == [m1 EXCEPT !.this.stats.tload = m.now,
                           !.this.stats.tloadDef = TRUE]
      IN reset([m2 EXCEPT !.out.host = "success",
                          !.out.hostStats = m2.this.stats],
               TRUE)

\* loadError() arming the retry timer after the doubling of the delay.
loadError_ArmsDoubled(m, status) ==
    IF m.this.stats.aborted
    THEN m
    ELSE IF MayRetry(m.this.stats.retry, m.this.maxRetry)
    THEN
      LET m1 == [m EXCEPT !.this.retryDelay = NextRetryDelay(@),
                          !.this.stats.retry = @ + 1]
          m2 == [setTimeout(m1, "retry", m1.this.retryDelay)
                    EXCEPT !.this.retryTimeout = NewTimerId(m1),
                           !.out.armedRetry = m1.this.retryDelay]
      IN reset(m2, FALSE)
    ELSE reset([m EXCEPT !.out.host = "error",
                         !.out.status = status,
                         !.out.hostStats = m.this.stats],
               TRUE)

\* loadError(httpError)
loadError(m, status) ==
    IF m.this.stats.aborted
    THEN m
    ELSE IF MayRetry(m.this.stats.retry, m.this.maxRetry)
    THEN
      LET m1 == [setTimeout(m, "retry", m.this.retryDelay)
                    EXCEPT !.this.retryTimeout = NewTimerId(m),
                           !.out.armedRetry = m.this.retryDelay]
          m2 == [m1 EXCEPT !.this.retryDelay = NextRetryDelay(@),
                           !.this.stats.retry = @ + 1]
      IN reset(m2, FALSE)
    ELSE reset([m EXCEPT !.out.host = "error",
                         !.out.status = status,
                         !.out.hostStats = m.this.stats],
               TRUE)

\* loadProgress(event)
loadProgress(m, event) ==
    LET loaded == event.cdnDownloaded + event.p2pDownloaded
        m1 == [m EXCEPT !.this.stats.loaded = loaded,
                        !.this.stats.loadedDef = TRUE]
        m2 == IF m1.this.stats.tfirstK = "null"
              THEN [m1 EXCEPT !.this.stats.tfirst = Max(m.now, m.this.stats.trequest),
                              !.this.stats.tfirstK = "number"]
              ELSE m1
    IN [m2 EXCEPT !.out.host = "progress", !.out.hostStats = m2.this.stats]

\* loadTimeout() giving the transfer up after telling the host.
loadTimeout_Aborts(m) ==
    abort([m EXCEPT !.out.host = "timeout", !.out.hostStats = m.this.stats])

\* loadTimeout()
loadTimeout(m) ==
    [m EXCEPT !.out.host = "timeout", !.out.hostStats = m.this.stats]

\* ------------------------------------------------------------------- Init
\* constructor(config): this.reset(); no other field exists yet.
NewLoader == [peerAgentLoader |-> 0, requestTimeout |-> 0, retryTimeout |-> 0,
              byteRange |-> FALSE, frag |-> NoFrag, hasCallbacks |-> FALSE,
              stats |-> NoStats, timeout |-> 0, maxRetry |-> 0, retryDelay |-> 0]

\* op: the operation; t: the transfer or timer it is about; late: the transfer
\* was cancelled by abort() before; old: the transfer was issued before the
\* current load(); due: the timer is the one the last retried failure armed,
\* with no abort() and no load() since; the rest are the arguments.
NoEvent == [op |-> "new", t |-> 0, late |-> FALSE, old |-> FALSE, due |-> FALSE,
            onProgress |-> FALSE, frag |-> NoFrag, module |-> FALSE,
            stats |-> Stats(0, 0, 0), status |-> 0, event |-> Progress(0, 0),
            out |-> NoOut]

\* aborted: abort() was called since the current load(); cb: the success and
\* error callbacks of the host invoked since; errors: the failures the peer
\* agent module reported since; nFail: those of them that arrived with the
\* retry count below maxRetry on a loader not aborted; d0: the retryDelay the
\* current load() was given; armed: the delays of the retry timers armed
\* since; sampled: a progress event arrived since loadInternal() last zeroed
\* stats.loaded; afterAbort: no load() was entered since the last abort();
\* frag: the frag the current load() was given; own: the transfers issued
\* since the current load(); ownFailed: the failures reported since for
\* transfers issued since; attemptSum: the bytes of the last progress event of
\* the transfer the loader holds, 0 when the attempt started; retryId: the
\* pending timer the last retried failure armed, 0 after abort() or load().
NoHist == [aborted |-> FALSE, cb |-> 0, errors |-> 0, nFail |-> 0, d0 |-> 0,
           armed |-> <<>>, sampled |-> FALSE, afterAbort |-> FALSE,
           frag |-> NoFrag, own |-> 0, ownFailed |-> 0, attemptSum |-> 0,
           retryId |-> 0]

Init ==
    /\ loader = NewLoader
    /\ timers = {}
    /\ transfers = [h \in 1..MaxTransfers |-> NoTransfer]
    /\ issued = 0
    /\ peerAgentModule \in BOOLEAN
    /\ now = 0
    /\ ev = NoEvent
    /\ hist = NoHist

\* ----------------------------------------------------------------- history
\* The history after a handler run with effects `out`.
Account(h, out) ==
    [h EXCEPT !.cb = IF out.host \in {"success", "error"} THEN @ + 1 ELSE @,
              !.armed = IF out.armedRetry >= 0 THEN Append(@, out.armedRetry) ELSE @,
              !.sampled = IF out.armedDeadline THEN FALSE
                          ELSE IF out.host = "progress" THEN TRUE ELSE @,
              !.own = IF out.issued # 0 THEN @ + 1 ELSE @,
              !.attemptSum = IF out.armedDeadline THEN 0 ELSE @]

\* The handler has run: its machine becomes the state. retryId is kept only
\* while its timer is pending.
Commit(m, e, h) ==
    /\ loader' = m.this
    /\ timers' = m.timers
    /\ transfers' = m.transfers
    /\ issued' = m.issued
    /\ ev' = [e EXCEPT !.out = m.out]
    /\ hist' = [h EXCEPT !.retryId = IF \E x \in m.timers : x.id = @ /\ x.kind = "retry"
                                     THEN @ ELSE 0]
    /\ UNCHANGED <<peerAgentModule, now>>

\* The transfers in progress when load() is entered were issued before it.
MarkOld(m) ==
    [m EXCEPT !.transfers = [t \in DOMAIN @ |->
        IF @[t].status # "none" /\ t # m.out.issued
        THEN [@[t] EXCEPT !.old = TRUE] ELSE @[t]]]

\* ----------------------------------------------------------------- actions
\* The host calls load().
Load(onProgress, frag, timeout, maxRetry, retryDelay) ==
    /\ LET m == load(Machine, onProgress, frag, timeout, maxRetry, retryDelay)
           e == [NoEvent EXCEPT !.op = "load", !.onProgress = onProgress,
                                !.frag = frag, !.module = peerAgentModule]
           entered == m.out.threw \notin {"noProgress", "noFrag", "noModule"}
           h == IF entered
                THEN Account([NoHist EXCEPT !.d0 = retryDelay, !.frag = frag], m.out)
                ELSE hist
       IN Commit(IF entered THEN MarkOld(m) ELSE m, e, h)

\* The host calls abort().
Abort ==
    LET m == abort(Machine)
    IN Commit(m, [NoEvent EXCEPT !.op = "abort", !.t = loader.peerAgentLoader],
              [hist EXCEPT !.aborted = TRUE, !.afterAbort = TRUE, !.retryId = 0])

\* The host calls destroy(): this.abort().
Destroy ==
    LET m == abort(Machine)
    IN Commit(m, [NoEvent EXCEPT !.op = "destroy", !.t = loader.peerAgentLoader],
              [hist EXCEPT !.aborted = TRUE, !.afterAbort = TRUE, !.retryId = 0])

\* The transfers the peer agent module may still call back for: it calls one
\* of onSuccess and onError once per transfer, after any number of onProgress;
\* a transfer whose abort() was called may still be answered.
Pending == {t \in DOMAIN transfers : transfers[t].status \in {"live", "cancelled"}}

BackendEvent(op, t) ==
    [NoEvent EXCEPT !.op = op, !.t = t, !.late = (transfers[t].status = "cancelled"),
                    !.old = transfers[t].old]

\* The peer agent module calls callbacks.onSuccess of transfer t.
BackendSuccess(t, stats) ==
    /\ t \in Pending
    /\ LET m == loadSuccess([Machine EXCEPT !.transfers[t] = NoTransfer], stats)
       IN Commit(m, [BackendEvent("success", t) EXCEPT !.stats = stats],
                 Account(hist, m.out))

\* The peer agent module calls callbacks.onError of transfer t.
BackendError(t, status) ==
    /\ t \in Pending
    /\ LET m == loadError([Machine EXCEPT !.transfers[t] = NoTransfer], status)
           retried == ~loader.stats.aborted /\ loader.stats.retry < loader.maxRetry
       IN Commit(m, [BackendEvent("error", t) EXCEPT !.status = status],
                 [Account(hist, m.out) EXCEPT
                     !.errors = @ + 1,
                     !.nFail = IF retried THEN @ + 1 ELSE @,
                     !.ownFailed = IF transfers[t].old THEN @ ELSE @ + 1,
                     !.retryId = IF m.out.armedRetry >= 0
                                 THEN m.this.retryTimeout ELSE @])

\* The peer agent module calls callbacks.onProgress of transfer t.
BackendProgress(t, event) ==
    /\ t \in Pending
    /\ LET m == loadProgress(Machine, event)
       IN Commit(m, [BackendEvent("progress", t) EXCEPT !.event = event],
                 [Account(hist, m.out) EXCEPT
                     !.attemptSum = IF t = loader.peerAgentLoader
                                    THEN event.cdnDownloaded + event.p2pDownloaded
                                    ELSE @])

\* The deadline timer x fires: loadTimeout().
DeadlineFires(x) ==
    /\ x \in timers
    /\ x.kind = "deadline"
    /\ LET m == loadTimeout([Machine EXCEPT !.timers = @ \ {x}])
       IN Commit(m, [NoEvent EXCEPT !.op = "deadline", !.t = x.id],
                 Account(hist, m.out))

\* The retry timer x fires: loadInternal().
RetryFires(x) ==
    /\ x \in timers
    /\ x.kind = "retry"
    /\ LET m == loadInternal([Machine EXCEPT !.timers = @ \ {x}])
       IN Commit(m, [NoEvent EXCEPT !.op = "retry", !.t = x.id,
                                    !.module = peerAgentModule,
                                    !.due = (x.id = hist.retryId)],
                 Account(hist, m.out))

\* Time passes.
Tick ==
    /\ now < MaxNow
    /\ now' = now + 1
    /\ UNCHANGED <<loader, timers, transfers, issued, peerAgentModule, ev, hist>>

\* The wrapper creates or disposes of its peer agent module.
ModuleSet ==
    /\ ~peerAgentModule
    /\ peerAgentModule' = TRUE
    /\ UNCHANGED <<loader, timers, transfers, issued, now, ev, hist>>

ModuleDispose ==
    /\ peerAgentModule
    /\ peerAgentModule' = FALSE
    /\ UNCHANGED <<loader, timers, transfers, issued, now, ev, hist>>

\* The life cycle of a loader the host reuses: every operation in every state,
\* until MaxTransfers transfers were issued.
Next ==
    \/ /\ issued < MaxTransfers
       /\ \E p \in BOOLEAN, f \in Frags, to \in Timeouts,
             r \in MaxRetries, d \in RetryDelays : Load(p, f, to, r, d)
    \/ Abort
    \/ Destroy
    \/ \E t \in DOMAIN transfers, s \in SuccessStats : BackendSuccess(t, s)
    \/ \E t \in DOMAIN transfers, s \in HttpStatuses : BackendError(t, s)
    \/ \E t \in DOMAIN transfers, e \in ProgressEvents : BackendProgress(t, e)
    \/ \E x \in timers : DeadlineFires(x)
    \/ /\ issued < MaxTransfers
       /\ \E x \in timers : RetryFires(x)
    \/ ModuleSet
    \/ ModuleDispose

Spec == Init /\ [][Next]_vars

\* One load() on a new loader and its retries: the host calls nothing else and
\* the peer agent module stays.
NextRetry ==
    \/ /\ ~loader.stats.exists
       /\ \E p \in BOOLEAN, f \in Frags, to \in Timeouts,
             r \in RetryMaxRetries, d \in RetryRetryDelays : Load(p, f, to, r, d)
    \/ \E t \in DOMAIN transfers, s \in SuccessStats : BackendSuccess(t, s)
    \/ \E t \in DOMAIN transfers, s \in HttpStatuses : BackendError(t, s)
    \/ \E t \in DOMAIN transfers, e \in ProgressEvents : BackendProgress(t, e)
    \/ \E x \in timers : DeadlineFires(x)
    \/ \E x \in timers : RetryFires(x)

SpecRetry == Init /\ [][NextRetry]_vars

\* One load() on a new loader while time passes.
NextTiming ==
    \/ /\ ~loader.stats.exists
       /\ \E to \in Timeouts, r \in TimingMaxRetries, d \in RetryDelays :
             Load(TRUE, PlainFrag, to, r, d)
    \/ \E t \in DOMAIN transfers, s \in TimingSuccessStats : BackendSuccess(t, s)
    \/ \E t \in DOMAIN transfers, s \in HttpStatuses : BackendError(t, s)
    \/ \E t \in DOMAIN transfers, e \in TimingProgressEvents : BackendProgress(t, e)
    \/ \E x \in timers : DeadlineFires(x)
    \/ \E x \in timers : RetryFires(x)
    \/ Tick

SpecTiming == Init /\ [][NextTiming]_vars

\* A loader the host reuses for fragments with and without a byte range.
NextRange ==
    \/ /\ issued < MaxTransfers
       /\ \E f \in RangeFrags, to \in Timeouts, r \in RangeMaxRetries,
             d \in RetryDelays : Load(TRUE, f, to, r, d)
    \/ Abort
    \/ \E t \in DOMAIN transfers, s \in SuccessStats : BackendSuccess(t, s)
    \/ \E t \in DOMAIN transfers, s \in HttpStatuses : BackendError(t, s)
    \/ /\ issued < MaxTransfers
       /\ \E x \in timers : RetryFires(x)

SpecRange == Init /\ [][NextRange]_vars

\* ------------------------------------------------------------------ claims
Deadlines == {x \in timers : x.kind = "deadline"}
Retries == {x \in timers : x.kind = "retry"}
\* The transfers issued, not answered and not cancelled.
Outstanding == {t \in DOMAIN transfers : transfers[t].status = "live"}

\* C1: a load() that is never aborted has its success and error callbacks
\* invoked at most once together.
C1_AtMostOneOutcome == ~hist.aborted => hist.cb <= 1

\* C2: a success or error the peer agent module delivers for a transfer
\* that abort() cancelled never invokes the success or error callback of the
\* host, whatever happened since the abort().
C2_LateOutcomeSwallowed ==
    (ev.op \in {"success", "error"} /\ ev.late) => ev.out.host = "none"

\* C3: at most one transfer of the loader is outstanding at the peer agent
\* module (issued, not answered, not cancelled).
C3_OneOutstandingTransfer == Cardinality(Outstanding) <= 1

\* C4: after the n-th failure that is retried, the stored retry delay is
\* min(2^n * d, 64000) and stats.retry is n, d being the retryDelay given to
\* load().
C4_BackoffAfterNthFailure ==
    hist.nFail >= 1 =>
        /\ loader.retryDelay = Min((2 ^ hist.nFail) * hist.d0, 64000)
        /\ loader.stats.retry = hist.nFail

C4_Witness ==
    /\ hist.nFail = 2 /\ hist.d0 = 20000
    /\ loader.retryDelay = 64000 /\ loader.stats.retry = 2

\* The delay the i-th retry timer of a load() given retryDelay d is armed
\* with: the delay held before the i-th doubling.
DelayBeforeDoubling(d, i) == IF i = 1 THEN d ELSE Min((2 ^ (i - 1)) * d, 64000)

\* C5: when a load() sees k <= maxRetry failures and then a success, exactly
\* k retry timers were armed, the i-th with the delay held before the i-th
\* doubling, and the success callback is invoked, once, with stats.retry = k.
C5_RetriesThenSuccess ==
    /\ hist.cb <= 1
    /\ (ev.op = "success" /\ ev.out.host = "success") =>
          /\ hist.errors <= loader.maxRetry
          /\ Len(hist.armed) = hist.errors
          /\ \A i \in 1..Len(hist.armed) :
                hist.armed[i] = DelayBeforeDoubling(hist.d0, i)
          /\ ev.out.hostStats.retry = hist.errors
          /\ hist.cb = 1

C5_Witness ==
    /\ ev.op = "success" /\ ev.out.host = "success"
    /\ loader.maxRetry = 2 /\ hist.d0 = 1000 /\ hist.errors = 2
    /\ hist.armed = <<1000, 2000>> /\ ev.out.hostStats.retry = 2

\* C6: a load() without a progress callback, without a fragment or without
\* the peer agent module throws and changes nothing: no timer is armed, no
\* transfer issued, no field of the loader written.
C6_PreconditionNoEffect ==
    [][(/\ ev'.op = "load" /\ ev' # ev
        /\ (~ev'.onProgress \/ ~ev'.frag.present \/ ~ev'.module))
       => /\ ev'.out.threw \in {"noProgress", "noFrag", "noModule"}
          /\ ev'.out.issued = 0 /\ ~ev'.out.armedDeadline /\ ev'.out.armedRetry = -1
          /\ UNCHANGED <<loader, timers, transfers, issued>>]_vars

C6_Witness ==
    /\ ev.op = "load" /\ ev.out.threw = "noModule"
    /\ loader.peerAgentLoader # 0 /\ Deadlines # {}

\* C7: a progress event the peer agent module delivers for a transfer that
\* abort() cancelled does not invoke the progress callback of the host.
C7_LateProgressSwallowed ==
    (ev.op = "progress" /\ ev.late) => ev.out.host = "none"

C9_TimersExclusive == Deadlines = {} \/ Retries = {}

\* C10: when abort() returns no timer is pending, no handle is held and no
\* transfer is left outstanding; and from then to the next load() no timeout
\* callback is invoked and no attempt is started.
C10_AbortQuiesces ==
    /\ ev.op = "abort" =>
          /\ timers = {} /\ loader.peerAgentLoader = 0 /\ Outstanding = {}
    /\ hist.afterAbort =>
          /\ ev.out.host # "timeout"
          /\ ev.out.issued = 0 /\ ~ev.out.armedDeadline

\* The loader with a timer field that names no pending timer read as cleared.
LoaderView(l, ts) ==
    [l EXCEPT !.requestTimeout = IF \E x \in ts : x.id = @ THEN @ ELSE 0,
              !.retryTimeout = IF \E x \in ts : x.id = @ THEN @ ELSE 0]

\* C11: abort() is idempotent. abort() or destroy() right after abort() or
\* destroy() leaves the loader, the timers and the transfers exactly as they
\* are; abort() or destroy() with no handle held and no timer pending leaves
\* them as they are but for clearing timer fields that name no pending timer;
\* neither cancels a transfer nor invokes a host callback.
C11_AbortIdempotent ==
    [][(/\ Abort \/ Destroy
        /\ \/ ev.op \in {"abort", "destroy"}
           \/ loader.peerAgentLoader = 0 /\ timers = {})
       => /\ LoaderView(loader', timers') = LoaderView(loader, timers)
          /\ ev.op \in {"abort", "destroy"} => loader' = loader
          /\ UNCHANGED <<timers, transfers, issued>>
          /\ ev'.out.cancelled = 0
          /\ ev'.out.host = "none"
          /\ ev'.out.threw = "none"]_vars

\* abort() was called with no handle held and no timer pending, after an
\* earlier abort() of the same load() had cancelled a transfer.
C11_Witness ==
    /\ ev.op = "abort"
    /\ ev.t = 0
    /\ loader.stats.aborted
    /\ timers = {}

\* C12: a retry timer, a deadline timer and a success, error or progress
\* callback of the peer agent module never raise an error.
C12_NoAsyncThrow ==
    ev.op \in {"retry", "deadline", "success", "error", "progress"}
        => ev.out.threw = "none"

\* C13: the stats given to a progress or a success callback have loaded equal
\* to the bytes (cdnDownloaded plus p2pDownloaded) the last progress event of
\* the current attempt reported, 0 when it reported none; loaded is 0 when an
\* attempt starts.
C13_LoadedIsAttemptSum ==
    /\ ev.out.host \in {"progress", "success"}
           => /\ ev.out.hostStats.loadedDef
              /\ ev.out.hostStats.loaded = hist.attemptSum
    /\ ev.out.armedDeadline => loader.stats.loadedDef /\ loader.stats.loaded = 0

\* C14: when a success reporting D = p2pDuration + cdnDuration > 0 and
\* p2pDownloaded > 0 invokes the success callback at time T, the stats it is
\* given have trequest = T - D and tfirst - trequest = min(D / 2, 10 ms);
\* when D = 0 or p2pDownloaded = 0 they have trequest and tfirst as they were.
C14_BackDating ==
    [][(ev'.op = "success" /\ ev' # ev /\ ev'.out.host = "success")
       => LET D  == ev'.stats.p2pDuration + ev'.stats.cdnDuration
              hs == ev'.out.hostStats
          IN IF D > 0 /\ ev'.stats.p2pDownloaded > 0
             THEN /\ hs.trequest = now - D
                  /\ hs.tfirstK = "number"
                  /\ hs.tfirst - hs.trequest = IF D <= 2 * MaxLatency
                                                THEN D \div 2 ELSE MaxLatency
             ELSE /\ hs.trequest = loader.stats.trequest
                  /\ hs.tfirstK = loader.stats.tfirstK
                  /\ hs.tfirst = loader.stats.tfirst]_vars

\* A success reporting 30 ms of transfer and bytes from peers invoked the
\* success callback after the clock advanced: the latency is the cap.
C14_Witness ==
    /\ ev.op = "success"
    /\ ev.out.host = "success"
    /\ ev.stats = Stats(60, 0, 1)
    /\ now > 0
    /\ ev.out.hostStats.trequest = now - 60
    /\ ev.out.hostStats.tfirst = now - 60 + MaxLatency

\* C15: every transfer issued for a load() whose frag has numeric offsets s
\* and e, by load() itself or by a retry timer, carries the Range header
\* bytes=s-(e-1).
C15_RangeHeaderOfAttempt ==
    (ev.out.issued # 0 /\ hist.frag.hasRange)
        => transfers[ev.out.issued].range =
               [present |-> TRUE, numeric |-> TRUE,
                first |-> hist.frag.s, last |-> hist.frag.e - 1]

\* A retry timer issued a transfer for a load() of the byte range 100 to 200:
\* its header is bytes=100-199.
C15_Witness ==
    /\ ev.op = "retry"
    /\ ev.out.issued # 0
    /\ hist.frag = RangeFrag
    /\ transfers[ev.out.issued].range.present
    /\ transfers[ev.out.issued].range.first = 100
    /\ transfers[ev.out.issued].range.last = 199

\* C16: a failure that is retried leaves no handle and no deadline timer of
\* the loader but its retry timer pending; when that timer fires with no
\* abort() and no load() since the failure, one attempt starts: one transfer
\* is issued, one deadline timer is armed, no error is raised.
C16_RetryStartsOneAttempt ==
    /\ (ev.op = "error" /\ ev.out.armedRetry >= 0)
           => /\ loader.peerAgentLoader = 0
              /\ loader.requestTimeout = 0
              /\ \E x \in Retries : x.id = loader.retryTimeout
    /\ (ev.op = "retry" /\ ev.due)
           => /\ ev.out.threw = "none"
              /\ ev.out.issued # 0
              /\ loader.peerAgentLoader = ev.out.issued
              /\ ev.out.armedDeadline
              /\ \E x \in Deadlines : x.id = loader.requestTimeout

\* What load() stores for all the attempts of the load.
LoadState(l) ==
    [trequest |-> l.stats.trequest, aborted |-> l.stats.aborted,
     exists |-> l.stats.exists, hasCallbacks |-> l.hasCallbacks,
     frag |-> l.frag, timeout |-> l.timeout, maxRetry |-> l.maxRetry]

\* C17: a failure and the retry timer that follows it leave stats.trequest,
\* stats.aborted, the callbacks, the frag, the timeout and maxRetry as load()
\* stored them; the failure does not lower stats.retry and the retry timer
\* leaves it as it is; an attempt the timer starts has tfirst null and
\* loaded 0; only load() brings stats.retry back to 0.
C17_RetryKeepsLoadState ==
    [][/\ (ev'.op = "error" /\ ev' # ev)
           => /\ LoadState(loader') = LoadState(loader)
              /\ loader'.stats.retry >= loader.stats.retry
       /\ (ev'.op = "retry" /\ ev' # ev)
           => /\ LoadState(loader') = LoadState(loader)
              /\ loader'.stats.retry = loader.stats.retry
              /\ ev'.out.armedDeadline
                     => /\ loader'.stats.tfirstK = "null"
                        /\ loader'.stats.loadedDef
                        /\ loader'.stats.loaded = 0
       /\ loader'.stats.retry < loader.stats.retry
           => ev'.op = "load" /\ loader'.stats.retry = 0]_vars

\* The retry timer armed by the second failure of a load() started the third
\* attempt: retry is still 2, loaded is 0 and tfirst is null.
C17_Witness ==
    /\ ev.op = "retry"
    /\ ev.due
    /\ ev.out.issued # 0
    /\ loader.stats.retry = 2
    /\ hist.nFail = 2
    /\ loader.stats.tfirstK = "null"
    /\ loader.stats.loaded = 0

\* C18: a load() with maxRetry = n that issued its transfer has at most n + 1
\* transfers issued for it, and the error callback is invoked only when n + 1
\* transfers issued for it have failed, with the status of the failure that
\* invokes it.
C18_RetryBudget ==
    hist.own >= 1
        => /\ hist.own <= loader.maxRetry + 1
           /\ ev.out.host = "error"
                  => /\ ~ev.old
                     /\ hist.ownFailed = loader.maxRetry + 1
                     /\ ev.out.status = ev.status

\* C19: the stats given to the success callback have tfirst a number and
\* trequest <= tfirst <= tload.
C19_CoherentTimeline ==
    ev.out.host = "success"
        => /\ ev.out.hostStats.tfirstK = "number"
           /\ ev.out.hostStats.tloadDef
           /\ ev.out.hostStats.trequest <= ev.out.hostStats.tfirst
           /\ ev.out.hostStats.tfirst <= ev.out.hostStats.tload

\* C20: a transfer carries a Range header if and only if the frag given to
\* the current load() has both offsets numeric.
C20_RangeOnlyForRangedFrag ==
    ev.out.issued # 0
        => (transfers[ev.out.issued].range.present <=> hist.frag.hasRange)
====
